---- MODULE Spec2Model ----
(***************************************************************************)
(* A model of the HPKE context of src/src/lib.rs: the PSK-input check, the *)
(* key schedule, the Base-mode setups and the stateful seal/open over a    *)
(* u32 sequence number.  The KEM, KDF, AEAD and util modules are not part  *)
(* of lib.rs; they are modelled from their interface (spec.md, section 6). *)
(***************************************************************************)
EXTENDS Integers, Sequences, FiniteSets, TLC

\* ------------------------------------------------------------------ bounds
\* Number of values of one byte (256 in the program).
ByteBase == 4
\* aead.get_nk(), aead.get_nn(), kdf.get_nh(), scaled down (16, 12, 32).
Nk == 2
Nn == 5
Nh == 2
\* Bytes of the sequence number (sequence_number: u32 has 4, and
\* seq.to_be_bytes() gives 4 bytes), scaled down so that the counter's largest
\* value is within reach.
SeqBytes == 2
\* Ciphertexts sealed by the sender and not yet opened by the receiver.
MaxInFlight == 2
\* Messages sealed after one setup, where the counter need not run to its end.
MaxSealed == 3

\* ------------------------------------------------------- program constants

SeqModulus == ByteBase ^ SeqBytes

SeqMax == SeqModulus - 1

Mode == {"Base", "Psk", "Auth", "AuthPsk"}

ModeByte(m) ==
    CASE m = "Base" -> 0
      [] m = "Psk" -> 1
      [] m = "Auth" -> 2
      [] m = "AuthPsk" -> 3

\* The two instances of the sender/receiver scenarios.
Inst == {"s", "r"}

\* ---------------------------------------------------------- panic messages
PanicInconsistentPsk == "Inconsistent PSK inputs"

PanicPskNotNeeded == "PSK input provided when not needed"

PanicMissingPsk == "Missing required PSK input"

PanicModeAssert == "assertion failed: self.mode equals Mode::Base"

PanicOpen == "Error in open"

PanicAddOverflow == "attempt to add with overflow"

PanicSubOverflow == "attempt to subtract with overflow"

PanicXorLength == "xor_bytes: length mismatch"

\* The error taxonomy of spec.md section 7, as the code signals it.
ConfigurationError == {PanicInconsistentPsk, PanicPskNotNeeded, PanicMissingPsk}

ModeMismatch == PanicModeAssert

AuthenticationError == PanicOpen

SequenceExhausted == PanicAddOverflow

\* ------------------------------------------------------------ byte strings
Zeros(n) == [i \in 1..n |-> 0]

\* u32::to_be_bytes
to_be_bytes(seq) ==
    [i \in 1..SeqBytes |-> (seq \div (ByteBase ^ (SeqBytes - i))) % ByteBase]

RECURSIVE BitXor(_, _)
BitXor(a, b) ==
    IF a = 0 /\ b = 0 THEN 0
    ELSE (((a % 2) + (b % 2)) % 2) + (2 * BitXor(a \div 2, b \div 2))

Min(a, b) == IF a < b THEN a ELSE b

\* util::xor_bytes; on operands of different lengths the lenient variant
\* stops at the shorter one (iterator zip), the strict one panics.
xor_bytes(a, b) == [i \in 1..Min(Len(a), Len(b)) |-> BitXor(a[i], b[i])]

\* util::concat
concat(parts) ==
    LET RECURSIVE Join(_)
        Join(ps) == IF ps = <<>> THEN <<>> ELSE Head(ps) \o Join(Tail(ps))
    IN Join(parts)

\* -------------------------------------------------------- KDF collaborator
HashMod == 251

RECURSIVE AbsorbFrom(_, _, _)
AbsorbFrom(h, bs, i) ==
    IF i > Len(bs) THEN h
    ELSE AbsorbFrom(((h * 31) + bs[i] + 1) % HashMod, bs, i + 1)

Absorb(h, bs) == AbsorbFrom(h, bs, 1)

Squeeze(h, len) ==
    [i \in 1..len |-> ((((h + 1) * ((2 * i) + 1)) + (7 * i * i)) % HashMod) % ByteBase]

LabelCode(label) ==
    CASE label = "pskID_hash" -> 11
      [] label = "info_hash" -> 12
      [] label = "psk_hash" -> 13
      [] label = "secret" -> 14
      [] label = "key" -> 15
      [] label = "nonce" -> 16
      [] label = "exp" -> 17

\* kdf.labeled_extract(salt, label, ikm) -> pseudorandom_key[nh]
labeled_extract(salt, label, ikm) ==
    Squeeze(Absorb(Absorb(Absorb(1, <<Len(salt)>> \o salt), <<LabelCode(label)>>),
                   <<Len(ikm)>> \o ikm), Nh)

\* kdf.labeled_expand(prk, label, context, length) -> bytes[length]
labeled_expand(prk, label, context, len) ==
    Squeeze(Absorb(Absorb(Absorb(2, prk), <<LabelCode(label)>>), context), len)

\* ------------------------------------------------------- AEAD collaborator
\* aead.seal(key, nonce, aad, plaintext) -> ciphertext (tag included).  A
\* ciphertext is what it was sealed from, and the set of its bits (body and
\* tag) that differ from what seal returned: none on seal's output.
AeadSeal(key, nonce, aad, pt) ==
    [key |-> key, nonce |-> nonce, aad |-> aad, pt |-> pt, flipped |-> {}]

\* aead.open(key, nonce, aad, ciphertext) -> plaintext | error: only an
\* unchanged output of seal under the same key, nonce and aad is accepted.
AeadOpen(key, nonce, aad, ct) ==
    IF ct.key = key /\ ct.nonce = nonce /\ ct.aad = aad /\ ct.flipped = {}
    THEN [ok |-> TRUE, pt |-> ct.pt]
    ELSE [ok |-> FALSE, pt |-> <<>>]

\* Bytes of the authentication tag at the end of a ciphertext.
TagLen == 1

\* The bit positions of one byte.
BitsOfByte == {b \in 0..ByteBase : 2 ^ b < ByteBase}

\* The bit positions of a ciphertext: its body, as long as the plaintext, then its tag.
CiphertextBits(ct) == 1..((Len(ct.pt) + TagLen) * Cardinality(BitsOfByte))

\* The ciphertext with bit k inverted.
FlipCiphertextBit(ct, k) == [ct EXCEPT !.flipped = (@ \ {k}) \cup ({k} \ @)]

\* The byte string with bit b of byte k inverted.
FlipBit(bytes, k, b) == [bytes EXCEPT ![k] = BitXor(@, 2 ^ b)]

\* -------------------------------------------------------- KEM collaborator
DhPrime == 11

DhGen == 2

RECURSIVE ModPow(_, _)
ModPow(b, e) == IF e = 0 THEN 1 ELSE (b * ModPow(b, e - 1)) % DhPrime

KemPk(sk) == ModPow(DhGen, sk)

KemBytes(n) == <<n \div ByteBase, n % ByteBase>>

\* kem.encaps(pk) -> (shared_secret, encapsulated_key), with ephemeral key e
encaps(pk, e) == [zz |-> KemBytes(ModPow(pk, e)), enc |-> KemPk(e)]

\* kem.decaps(encapsulated_key, sk) -> shared_secret
decaps(enc, sk) == KemBytes(ModPow(enc, sk))

\* ------------------------------------------------------------- input sets
RecipientSk == 3

Ephemerals == {1, 2}

\* The shared secret given to a direct key_schedule call.
ZZs == {<<2, 0>>}

Infos == {<<>>, <<1>>}

Psks == {<<>>, <<2, 1>>}

PskIds == {<<>>, <<3>>}

Aads == {<<>>, <<1>>}

Pts == {<<0>>, <<1, 2>>}

\* The inputs of get_secret: no psk, a psk of nh zero bytes, another psk.
SecretPsks == {<<>>, Zeros(Nh), <<2, 1>>}

SecretZZs == {<<>>, <<1>>, <<2, 0>>}

\* The (aad, plaintext) pairs a sender seals for a receiver.
Pairs == {<<<<>>, <<0>>>>, <<<<1>>, <<1, 2>>>>}

\* ------------------------------------------------------------------ state
VARIABLES
    hpke,             \* Inst -> the Hpke struct
    established,      \* Inst -> a key_schedule has completed on the instance
    ok_calls,         \* Inst -> increments of the sequence number since the last
                      \* setup: one by each successful seal or open
    last,             \* the last call: its inputs, outcome and collaborator calls
    seal_log,         \* (key, nonce) pairs given to aead.seal since the last setup
    chan,             \* messages sealed by "s" and not yet opened by "r"
    delivery,         \* the plaintext sent in the message "r" opened last
    wire,             \* the encapsulated key and info of the sender's last setup
    nonce_log,        \* the results of compute_nonce since the last setup
    sent,             \* every message sealed by "s" since the last setup
    accepted          \* the plaintexts "r" has accepted since the last setup

vars == <<hpke, established, ok_calls, last, seal_log, chan, delivery, wire,
          nonce_log, sent, accepted>>

\* Context::default()
DefaultContext ==
    [key |-> <<>>, nonce |-> <<>>, exporter_secret |-> <<>>, sequence_number |-> 0]

\* Hpke::new
New(mode, kem_id, kdf_id, aead_id) ==
    [mode |-> mode, kem_id |-> kem_id, kdf_id |-> kdf_id, aead_id |-> aead_id,
     nk |-> Nk, nn |-> Nn, nh |-> Nh, ctx |-> DefaultContext]

NoOut == [kind |-> "none", val |-> <<>>]

NoArgs ==
    [zz |-> <<>>, info |-> <<>>, psk |-> <<>>, psk_id |-> <<>>, seq |-> 0, sk_r |-> 0]

NoDelivery == [opened |-> FALSE, sent |-> <<>>, tampered |-> FALSE, offered |-> 0]

NoWire == [sent |-> FALSE, enc |-> 0, pk_r |-> 0, info |-> <<>>]

NoAead == [called |-> FALSE, key |-> <<>>, nonce |-> <<>>, accepted |-> FALSE]

\* ---------------------------------------------------------- pure functions
\* Hpke::compute_nonce
compute_nonce(h, seq, lenient) ==
    IF h.nn < SeqBytes
    THEN [ok |-> FALSE, panic |-> PanicSubOverflow, val |-> <<>>]
    ELSE LET enc_seq == Zeros(h.nn - SeqBytes) \o to_be_bytes(seq)
         IN  IF Len(enc_seq) # Len(h.ctx.nonce) /\ ~lenient
             THEN [ok |-> FALSE, panic |-> PanicXorLength, val |-> <<>>]
             ELSE [ok |-> TRUE, panic |-> "", val |-> xor_bytes(enc_seq, h.ctx.nonce)]

\* Hpke::increment_seq: `+= 1` on a u32 panics when overflow checks are on
\* and wraps when they are off.
increment_seq(ctx, oc) ==
    IF ctx.sequence_number = SeqMax /\ oc
    THEN [ok |-> FALSE, ctx |-> ctx]
    ELSE [ok |-> TRUE,
          ctx |-> [ctx EXCEPT !.sequence_number = (@ + 1) % SeqModulus]]

\* verify_psk_inputs without its last check: a missing PSK goes unnoticed.
verify_psk_inputs_no_missing_check(mode, psk, psk_id) ==
    LET got_psk == psk # <<>>
        got_psk_id == psk_id # <<>>
    IN  IF (got_psk /\ ~got_psk_id) \/ (~got_psk /\ got_psk_id)
        THEN PanicInconsistentPsk
        ELSE IF got_psk /\ (mode = "Base" \/ mode = "Auth")
        THEN PanicPskNotNeeded
        ELSE "ok"

\* Hpke::verify_psk_inputs: "ok" or the panic message
verify_psk_inputs(mode, psk, psk_id) ==
    LET got_psk == psk # <<>>
        got_psk_id == psk_id # <<>>
    IN  IF (got_psk /\ ~got_psk_id) \/ (~got_psk /\ got_psk_id)
        THEN PanicInconsistentPsk
        ELSE IF got_psk /\ (mode = "Base" \/ mode = "Auth")
        THEN PanicPskNotNeeded
        ELSE IF ~got_psk /\ (mode = "Psk" \/ mode = "AuthPsk")
        THEN PanicMissingPsk
        ELSE "ok"

\* u16::to_be_bytes
u16_be_bytes(id) == <<(id \div ByteBase) % ByteBase, id % ByteBase>>

\* get_ciphersuite that casts each id to one byte (`as u8`).
get_ciphersuite_as_u8(h) ==
    concat(<<<<h.kem_id % ByteBase>>, <<h.kdf_id % ByteBase>>, <<h.aead_id % ByteBase>>>>)

\* Hpke::get_ciphersuite
get_ciphersuite(h) ==
    concat(<<u16_be_bytes(h.kem_id), u16_be_bytes(h.kdf_id), u16_be_bytes(h.aead_id)>>)

\* get_key_schedule_context that leaves the mode byte out.
get_key_schedule_context_no_mode(h, info, psk_id) ==
    LET ciphersuite == get_ciphersuite(h)
        psk_id_hash == labeled_extract(<<0>>, "pskID_hash", psk_id)
        info_hash == labeled_extract(<<0>>, "info_hash", info)
    IN  concat(<<ciphersuite, psk_id_hash, info_hash>>)

\* Hpke::get_key_schedule_context
get_key_schedule_context(h, info, psk_id) ==
    LET ciphersuite == get_ciphersuite(h)
        psk_id_hash == labeled_extract(<<0>>, "pskID_hash", psk_id)
        info_hash == labeled_extract(<<0>>, "info_hash", info)
    IN  concat(<<ciphersuite, <<ModeByte(h.mode)>>, psk_id_hash, info_hash>>)

\* get_secret that hashes an empty psk as it is.
get_secret_no_placeholder(h, psk, zz) ==
    LET psk_hash == labeled_extract(Zeros(Nh), "psk_hash", psk)
    IN  labeled_extract(psk_hash, "secret", zz)

\* Hpke::get_secret
get_secret(h, psk, zz) ==
    LET psk2 == IF psk = <<>> THEN Zeros(Nh) ELSE psk
        psk_hash == labeled_extract(Zeros(Nh), "psk_hash", psk2)
    IN  labeled_extract(psk_hash, "secret", zz)

\* The Context that key_schedule builds (lines 159-177).
DeriveContext(h, zz, info, psk, psk_id) ==
    LET key_schedule_context == get_key_schedule_context(h, info, psk_id)
        secret == get_secret(h, psk, zz)
    IN  [key |-> labeled_expand(secret, "key", key_schedule_context, h.nk),
         nonce |-> labeled_expand(secret, "nonce", key_schedule_context, h.nn),
         exporter_secret |-> labeled_expand(secret, "exp", key_schedule_context, h.nh),
         sequence_number |-> 0]

KdfCalls ==
    <<"kdf.labeled_extract", "kdf.labeled_extract", "kdf.labeled_extract",
      "kdf.labeled_extract", "kdf.labeled_expand", "kdf.labeled_expand",
      "kdf.labeled_expand">>

\* key_schedule that expands the key to nn bytes and the nonce base to nk bytes.
key_schedule_swaps_lengths(h, zz, info, psk, psk_id) ==
    LET v == verify_psk_inputs(h.mode, psk, psk_id)
        key_schedule_context == get_key_schedule_context(h, info, psk_id)
        secret == get_secret(h, psk, zz)
    IN  IF v # "ok"
        THEN [result |-> v, ctx |-> h.ctx, calls |-> <<>>]
        ELSE [result |-> "ok",
              ctx |-> [key |-> labeled_expand(secret, "key", key_schedule_context, h.nn),
                       nonce |-> labeled_expand(secret, "nonce", key_schedule_context, h.nk),
                       exporter_secret |->
                           labeled_expand(secret, "exp", key_schedule_context, h.nh),
                       sequence_number |-> 0],
              calls |-> KdfCalls]

\* key_schedule that clears the context before it checks the PSK inputs.
key_schedule_clears_first(h, zz, info, psk, psk_id) ==
    LET v == verify_psk_inputs(h.mode, psk, psk_id)
    IN  IF v # "ok"
        THEN [result |-> v, ctx |-> DefaultContext, calls |-> <<>>]
        ELSE [result |-> "ok", ctx |-> DeriveContext(h, zz, info, psk, psk_id),
              calls |-> KdfCalls]

\* key_schedule that keeps the old sequence number in the new context.
key_schedule_keeps_seq(h, zz, info, psk, psk_id) ==
    LET v == verify_psk_inputs(h.mode, psk, psk_id)
    IN  IF v # "ok"
        THEN [result |-> v, ctx |-> h.ctx, calls |-> <<>>]
        ELSE [result |-> "ok",
              ctx |-> [DeriveContext(h, zz, info, psk, psk_id)
                           EXCEPT !.sequence_number = h.ctx.sequence_number],
              calls |-> KdfCalls]

\* Hpke::key_schedule: the outcome of the call on instance struct h
key_schedule(h, zz, info, psk, psk_id) ==
    LET v == verify_psk_inputs(h.mode, psk, psk_id)
    IN  IF v # "ok"
        THEN [result |-> v, ctx |-> h.ctx, calls |-> <<>>]
        ELSE [result |-> "ok", ctx |-> DeriveContext(h, zz, info, psk, psk_id),
              calls |-> KdfCalls]

\* setup_base_sender without the assertion on the mode.
setup_base_sender_no_assert(h, pk_r, info, e) ==
    LET k == encaps(pk_r, e)
        ks == key_schedule(h, k.zz, info, <<>>, <<>>)
    IN  [result |-> ks.result, ctx |-> ks.ctx,
         calls |-> <<"kem.encaps">> \o ks.calls,
         out |-> IF ks.result = "ok" THEN [kind |-> "enc", val |-> k.enc] ELSE NoOut,
         zz |-> k.zz]

\* Hpke::setup_base_sender
setup_base_sender(h, pk_r, info, e) ==
    IF h.mode # "Base"
    THEN [result |-> PanicModeAssert, ctx |-> h.ctx, calls |-> <<>>,
          out |-> NoOut, zz |-> <<>>]
    ELSE LET k == encaps(pk_r, e)
             ks == key_schedule(h, k.zz, info, <<>>, <<>>)
         IN  [result |-> ks.result, ctx |-> ks.ctx,
              calls |-> <<"kem.encaps">> \o ks.calls,
              out |-> IF ks.result = "ok" THEN [kind |-> "enc", val |-> k.enc]
                      ELSE NoOut,
              zz |-> k.zz]

\* setup_base_receiver that runs the key schedule without the info.
setup_base_receiver_drops_info(h, enc, sk_r, info) ==
    IF h.mode # "Base"
    THEN [result |-> PanicModeAssert, ctx |-> h.ctx, calls |-> <<>>,
          out |-> NoOut, zz |-> <<>>]
    ELSE LET zz == decaps(enc, sk_r)
             ks == key_schedule(h, zz, <<>>, <<>>, <<>>)
         IN  [result |-> ks.result, ctx |-> ks.ctx,
              calls |-> <<"kem.decaps">> \o ks.calls,
              out |-> NoOut, zz |-> zz]

\* Hpke::setup_base_receiver
setup_base_receiver(h, enc, sk_r, info) ==
    IF h.mode # "Base"
    THEN [result |-> PanicModeAssert, ctx |-> h.ctx, calls |-> <<>>,
          out |-> NoOut, zz |-> <<>>]
    ELSE LET zz == decaps(enc, sk_r)
             ks == key_schedule(h, zz, info, <<>>, <<>>)
         IN  [result |-> ks.result, ctx |-> ks.ctx,
              calls |-> <<"kem.decaps">> \o ks.calls,
              out |-> NoOut, zz |-> zz]

\* seal that keeps the nonce it used as the next nonce base.
seal_ratchets_nonce(h, oc, lenient, aad, plain_txt) ==
    LET n == compute_nonce(h, h.ctx.sequence_number, lenient)
    IN  IF ~n.ok
        THEN [result |-> n.panic, out |-> NoOut, ctx |-> h.ctx, aead |-> NoAead]
        ELSE LET ctxt == AeadSeal(h.ctx.key, n.val, aad, plain_txt)
                 inc == increment_seq(h.ctx, oc)
                 call == [called |-> TRUE, key |-> h.ctx.key, nonce |-> n.val, accepted |-> TRUE]
             IN  IF ~inc.ok
                 THEN [result |-> PanicAddOverflow, out |-> NoOut, ctx |-> h.ctx,
                       aead |-> call]
                 ELSE [result |-> "ok", out |-> [kind |-> "ciphertext", val |-> ctxt],
                       ctx |-> [inc.ctx EXCEPT !.nonce = n.val], aead |-> call]

\* Hpke::seal: the outcome of the call on instance struct h
seal(h, oc, lenient, aad, plain_txt) ==
    LET n == compute_nonce(h, h.ctx.sequence_number, lenient)
    IN  IF ~n.ok
        THEN [result |-> n.panic, out |-> NoOut, ctx |-> h.ctx, aead |-> NoAead]
        ELSE LET ctxt == AeadSeal(h.ctx.key, n.val, aad, plain_txt)
                 inc == increment_seq(h.ctx, oc)
                 call == [called |-> TRUE, key |-> h.ctx.key, nonce |-> n.val, accepted |-> TRUE]
             IN  IF ~inc.ok
                 THEN [result |-> PanicAddOverflow, out |-> NoOut, ctx |-> h.ctx,
                       aead |-> call]
                 ELSE [result |-> "ok", out |-> [kind |-> "ciphertext", val |-> ctxt],
                       ctx |-> inc.ctx, aead |-> call]

\* open that swallows the AEAD's error and returns an empty plaintext.
open_swallows_error(h, oc, lenient, aad, cipher_txt) ==
    LET n == compute_nonce(h, h.ctx.sequence_number, lenient)
    IN  IF ~n.ok
        THEN [result |-> n.panic, out |-> NoOut, ctx |-> h.ctx, aead |-> NoAead]
        ELSE LET r == AeadOpen(h.ctx.key, n.val, aad, cipher_txt)
                 inc == increment_seq(h.ctx, oc)
                 call == [called |-> TRUE, key |-> h.ctx.key, nonce |-> n.val,
                          accepted |-> r.ok]
             IN  IF ~r.ok
                 THEN [result |-> "ok", out |-> [kind |-> "plaintext", val |-> <<>>],
                       ctx |-> h.ctx, aead |-> call]
                 ELSE IF ~inc.ok
                 THEN [result |-> PanicAddOverflow, out |-> NoOut, ctx |-> h.ctx,
                       aead |-> call]
                 ELSE [result |-> "ok", out |-> [kind |-> "plaintext", val |-> r.pt],
                       ctx |-> inc.ctx, aead |-> call]

\* open that counts the failed attempt: increment_seq runs before the match.
open_counts_failures(h, oc, lenient, aad, cipher_txt) ==
    LET n == compute_nonce(h, h.ctx.sequence_number, lenient)
    IN  IF ~n.ok
        THEN [result |-> n.panic, out |-> NoOut, ctx |-> h.ctx, aead |-> NoAead]
        ELSE LET r == AeadOpen(h.ctx.key, n.val, aad, cipher_txt)
                 inc == increment_seq(h.ctx, oc)
                 call == [called |-> TRUE, key |-> h.ctx.key, nonce |-> n.val,
                          accepted |-> r.ok]
             IN  IF ~inc.ok
                 THEN [result |-> PanicAddOverflow, out |-> NoOut, ctx |-> h.ctx,
                       aead |-> call]
                 ELSE IF ~r.ok
                 THEN [result |-> PanicOpen, out |-> NoOut, ctx |-> inc.ctx,
                       aead |-> call]
                 ELSE [result |-> "ok", out |-> [kind |-> "plaintext", val |-> r.pt],
                       ctx |-> inc.ctx, aead |-> call]

\* Hpke::open: the outcome of the call on instance struct h
open(h, oc, lenient, aad, cipher_txt) ==
    LET n == compute_nonce(h, h.ctx.sequence_number, lenient)
    IN  IF ~n.ok
        THEN [result |-> n.panic, out |-> NoOut, ctx |-> h.ctx, aead |-> NoAead]
        ELSE LET r == AeadOpen(h.ctx.key, n.val, aad, cipher_txt)
                 inc == increment_seq(h.ctx, oc)
                 call == [called |-> TRUE, key |-> h.ctx.key, nonce |-> n.val, accepted |-> r.ok]
             IN  IF ~r.ok
                 THEN [result |-> PanicOpen, out |-> NoOut, ctx |-> h.ctx,
                       aead |-> call]
                 ELSE IF ~inc.ok
                 THEN [result |-> PanicAddOverflow, out |-> NoOut, ctx |-> h.ctx,
                       aead |-> call]
                 ELSE [result |-> "ok", out |-> [kind |-> "plaintext", val |-> r.pt],
                       ctx |-> inc.ctx, aead |-> call]

\* --------------------------------------------------------------- actions
\* Algorithm identifiers of the instances (kem::Mode, kdf::Mode, aead::Mode as u16).
KemId == 2

KdfId == 1

AeadId == 1

Call(i, op, result, out, pre, calls, aead, args) ==
    [inst |-> i, op |-> op, result |-> result, out |-> out, pre |-> pre,
     calls |-> calls, aead |-> aead, args |-> args]

Init ==
    /\ \E m \in Mode : hpke = [i \in Inst |-> New(m, KemId, KdfId, AeadId)]
    /\ established = [i \in Inst |-> FALSE]
    /\ ok_calls = [i \in Inst |-> 0]
    /\ last = Call("s", "new", "ok", NoOut, DefaultContext, <<>>, NoAead, NoArgs)
    /\ seal_log = <<>>
    /\ chan = <<>>
    /\ delivery = NoDelivery
    /\ wire = NoWire
    /\ nonce_log = <<>>
    /\ sent = <<>>
    /\ accepted = <<>>

\* What a completed call leaves behind: the context, and on a successful
\* key schedule a fresh count of the calls made on the new context.
AfterSetup(i, r) ==
    /\ hpke' = [hpke EXCEPT ![i].ctx = r.ctx]
    /\ established' = [established EXCEPT ![i] = @ \/ r.result = "ok"]
    /\ ok_calls' = [ok_calls EXCEPT ![i] = IF r.result = "ok" THEN 0 ELSE @]

AfterMessage(i, r) ==
    /\ hpke' = [hpke EXCEPT ![i].ctx = r.ctx]
    /\ ok_calls' = [ok_calls EXCEPT ![i] = IF r.result = "ok" THEN @ + 1 ELSE @]
    /\ UNCHANGED established

\* A direct call of verify_psk_inputs(psk, psk_id).
VerifyPskInputs(i, psk, psk_id) ==
    /\ last' = Call(i, "verify_psk_inputs", verify_psk_inputs(hpke[i].mode, psk, psk_id),
                    NoOut, hpke[i].ctx, <<>>, NoAead,
                    [NoArgs EXCEPT !.psk = psk, !.psk_id = psk_id])
    /\ UNCHANGED <<hpke, established, ok_calls, seal_log, chan, delivery, wire,
                   nonce_log, sent, accepted>>

\* A direct call of key_schedule(zz, info, psk, psk_id), as the unit test makes.
KeySchedule(i, zz, info, psk, psk_id) ==
    \E r \in {key_schedule(hpke[i], zz, info, psk, psk_id)} :
        /\ AfterSetup(i, r)
        /\ last' = Call(i, "key_schedule", r.result, NoOut, hpke[i].ctx, r.calls, NoAead,
                        [NoArgs EXCEPT !.zz = zz, !.info = info, !.psk = psk,
                                       !.psk_id = psk_id])
        /\ seal_log' = IF r.result = "ok" THEN <<>> ELSE seal_log
        /\ nonce_log' = IF r.result = "ok" THEN <<>> ELSE nonce_log
        /\ UNCHANGED <<chan, delivery, wire, sent, accepted>>

\* A call of setup_base_sender(pk_r, info) on instance i; the KEM draws e.
SetupBaseSenderCall(i, pk_r, info, e) ==
    \E r \in {setup_base_sender(hpke[i], pk_r, info, e)} :
        /\ AfterSetup(i, r)
        /\ last' = Call(i, "setup_base_sender", r.result, r.out, hpke[i].ctx, r.calls,
                        NoAead, [NoArgs EXCEPT !.zz = r.zz, !.info = info])
        /\ seal_log' = IF r.result = "ok" THEN <<>> ELSE seal_log
        /\ nonce_log' = IF r.result = "ok" THEN <<>> ELSE nonce_log
        /\ UNCHANGED <<chan, delivery, sent, accepted>>

SetupBaseSender(i, pk_r, info, e) ==
    /\ SetupBaseSenderCall(i, pk_r, info, e)
    /\ UNCHANGED wire

SetupBaseReceiver(i, enc, sk_r, info) ==
    \E r \in {setup_base_receiver(hpke[i], enc, sk_r, info)} :
        /\ AfterSetup(i, r)
        /\ last' = Call(i, "setup_base_receiver", r.result, r.out, hpke[i].ctx, r.calls,
                        NoAead, [NoArgs EXCEPT !.zz = r.zz, !.info = info, !.sk_r = sk_r])
        /\ seal_log' = IF r.result = "ok" THEN <<>> ELSE seal_log
        /\ nonce_log' = IF r.result = "ok" THEN <<>> ELSE nonce_log
        /\ UNCHANGED <<chan, delivery, wire, sent, accepted>>

\* xor_bytes is given operands of different lengths only on a context whose
\* nonce base is not nn bytes long; either behaviour of it is possible then.
Lenience(h) == IF Len(h.ctx.nonce) = h.nn THEN {TRUE} ELSE BOOLEAN

\* `+= 1` overflows only at the largest u32; the build then decides between
\* a panic (overflow checks on) and wrapping (overflow checks off).
OverflowChecks(h) == IF h.ctx.sequence_number = SeqMax THEN BOOLEAN ELSE {TRUE}

\* A call of seal(aad, plain_txt) on instance i.
SealCall(i, aad, plain_txt) ==
    /\ ok_calls[i] <= SeqModulus
    /\ \E lenient \in Lenience(hpke[i]), oc \in OverflowChecks(hpke[i]) :
          \E r \in {seal(hpke[i], oc, lenient, aad, plain_txt)} :
              /\ AfterMessage(i, r)
              /\ last' = Call(i, "seal", r.result, r.out, hpke[i].ctx, <<>>, r.aead, NoArgs)

Seal(i, aad, plain_txt) ==
    /\ SealCall(i, aad, plain_txt)
    /\ UNCHANGED <<seal_log, chan, delivery, wire, nonce_log, sent, accepted>>

\* A key no key schedule derives (it is longer than nk).
WrongKey == Zeros(Nk + 1)

\* The ciphertexts offered to open: sealed under the instance's own key or a
\* wrong one, at its current sequence number or a neighbouring one.
Ciphertexts(h) ==
    {AeadSeal(h.ctx.key, compute_nonce(h, s % SeqModulus, TRUE).val, a, p) :
        s \in {h.ctx.sequence_number, h.ctx.sequence_number + 1,
               h.ctx.sequence_number + SeqMax},
        a \in Aads, p \in {<<1, 2>>}}
    \cup {AeadSeal(WrongKey, compute_nonce(h, h.ctx.sequence_number, TRUE).val, <<>>, <<0>>)}

\* A call of open(aad, cipher_txt) on instance i.
OpenCall(i, aad, cipher_txt) ==
    /\ ok_calls[i] <= SeqModulus
    /\ \E lenient \in Lenience(hpke[i]), oc \in OverflowChecks(hpke[i]) :
          \E r \in {open(hpke[i], oc, lenient, aad, cipher_txt)} :
              /\ AfterMessage(i, r)
              /\ last' = Call(i, "open", r.result, r.out, hpke[i].ctx, <<>>, r.aead, NoArgs)

Open(i, aad, cipher_txt) ==
    /\ OpenCall(i, aad, cipher_txt)
    /\ UNCHANGED <<seal_log, chan, delivery, wire, nonce_log, sent, accepted>>

Bytes(val) == [kind |-> "bytes", val |-> val]

\* A direct call of get_ciphersuite().
GetCiphersuite(i) ==
    /\ last' = Call(i, "get_ciphersuite", "ok", Bytes(get_ciphersuite(hpke[i])),
                    hpke[i].ctx, <<>>, NoAead, NoArgs)
    /\ UNCHANGED <<hpke, established, ok_calls, seal_log, chan, delivery, wire,
                   nonce_log, sent, accepted>>

\* A direct call of get_key_schedule_context(info, psk_id), as the unit test makes.
GetKeyScheduleContext(i, info, psk_id) ==
    /\ last' = Call(i, "get_key_schedule_context", "ok",
                    Bytes(get_key_schedule_context(hpke[i], info, psk_id)), hpke[i].ctx,
                    <<"kdf.labeled_extract", "kdf.labeled_extract">>, NoAead,
                    [NoArgs EXCEPT !.info = info, !.psk_id = psk_id])
    /\ UNCHANGED <<hpke, established, ok_calls, seal_log, chan, delivery, wire,
                   nonce_log, sent, accepted>>

\* A direct call of get_secret(psk, zz), as the unit test makes.
GetSecret(i, psk, zz) ==
    /\ last' = Call(i, "get_secret", "ok", Bytes(get_secret(hpke[i], psk, zz)),
                    hpke[i].ctx, <<"kdf.labeled_extract", "kdf.labeled_extract">>,
                    NoAead, [NoArgs EXCEPT !.psk = psk, !.zz = zz])
    /\ UNCHANGED <<hpke, established, ok_calls, seal_log, chan, delivery, wire,
                   nonce_log, sent, accepted>>

\* A call of compute_nonce(seq) on instance i.
ComputeNonceCall(i, seq) ==
    /\ \E lenient \in Lenience(hpke[i]) :
          \E r \in {compute_nonce(hpke[i], seq, lenient)} :
              last' = Call(i, "compute_nonce", IF r.ok THEN "ok" ELSE r.panic,
                           IF r.ok THEN Bytes(r.val) ELSE NoOut, hpke[i].ctx, <<>>,
                           NoAead, [NoArgs EXCEPT !.seq = seq])
    /\ UNCHANGED <<hpke, established, ok_calls, seal_log, chan, delivery, wire,
                   sent, accepted>>

ComputeNonce(i, seq) ==
    /\ ComputeNonceCall(i, seq)
    /\ UNCHANGED nonce_log

\* Every call sequence on one instance.
Next ==
    \E i \in {"s"} :
        \/ \E psk \in Psks, psk_id \in PskIds : VerifyPskInputs(i, psk, psk_id)
        \/ \E zz \in ZZs, info \in Infos, psk \in Psks, psk_id \in PskIds :
              KeySchedule(i, zz, info, psk, psk_id)
        \/ \E info \in Infos, e \in Ephemerals :
              SetupBaseSender(i, KemPk(RecipientSk), info, e)
        \/ \E info \in Infos, e \in Ephemerals :
              SetupBaseReceiver(i, KemPk(e), RecipientSk, info)
        \/ \E aad \in Aads, pt \in Pts : Seal(i, aad, pt)
        \/ \E aad \in Aads, ct \in Ciphertexts(hpke[i]) : Open(i, aad, ct)

Spec == Init /\ [][Next]_vars

\* ------------------------------------- every method, on a few messages
FewSeal(i, aad, plain_txt) ==
    /\ ok_calls[i] < MaxSealed
    /\ Seal(i, aad, plain_txt)

FewOpen(i, aad, cipher_txt) ==
    /\ ok_calls[i] < MaxSealed
    /\ Open(i, aad, cipher_txt)

NextCalls ==
    \E i \in {"s"} :
        \/ \E psk \in Psks, psk_id \in PskIds : VerifyPskInputs(i, psk, psk_id)
        \/ \E zz \in ZZs, info \in Infos, psk \in Psks, psk_id \in PskIds :
              KeySchedule(i, zz, info, psk, psk_id)
        \/ \E info \in Infos, e \in Ephemerals :
              SetupBaseSender(i, KemPk(RecipientSk), info, e)
        \/ \E info \in Infos, e \in Ephemerals :
              SetupBaseReceiver(i, KemPk(e), RecipientSk, info)
        \/ \E aad \in Aads, pt \in Pts : FewSeal(i, aad, pt)
        \/ \E aad \in Aads, ct \in Ciphertexts(hpke[i]) : FewOpen(i, aad, ct)
        \/ GetCiphersuite(i)
        \/ \E info \in Infos, psk_id \in PskIds : GetKeyScheduleContext(i, info, psk_id)
        \/ \E psk \in SecretPsks, zz \in SecretZZs : GetSecret(i, psk, zz)
        \/ ComputeNonce(i, hpke[i].ctx.sequence_number)

SpecCalls == Init /\ [][NextCalls]_vars

\* ------------------------------------------- seal calls on one instance
\* seal, with the (key, nonce) pair it gives to aead.seal written down.
LoggedSeal(i, aad, plain_txt) ==
    /\ Len(seal_log) <= SeqModulus
    /\ SealCall(i, aad, plain_txt)
    /\ seal_log' = IF last'.aead.called
                   THEN Append(seal_log, <<last'.aead.key, last'.aead.nonce>>)
                   ELSE seal_log
    /\ UNCHANGED <<chan, delivery, wire, nonce_log, sent, accepted>>

NextSeal ==
    \/ \E zz \in ZZs, info \in Infos, psk \in Psks, psk_id \in PskIds :
          KeySchedule("s", zz, info, psk, psk_id)
    \/ \E aad \in Aads, pt \in Pts : LoggedSeal("s", aad, pt)

SpecSeal == Init /\ [][NextSeal]_vars

\* ------------------------------------- the functions of the configuration
\* Algorithm identifiers whose two bytes, taken apart, do not tell them apart.
Ids == {1, ByteBase + 1}

\* Two instances, each of any mode and any ciphersuite.
InitPure ==
    /\ \E m \in [Inst -> Mode], kem \in [Inst -> Ids], kdf \in [Inst -> Ids],
          aead \in [Inst -> Ids] :
          hpke = [i \in Inst |-> New(m[i], kem[i], kdf[i], aead[i])]
    /\ established = [i \in Inst |-> FALSE]
    /\ ok_calls = [i \in Inst |-> 0]
    /\ last = Call("s", "new", "ok", NoOut, DefaultContext, <<>>, NoAead, NoArgs)
    /\ seal_log = <<>>
    /\ chan = <<>>
    /\ delivery = NoDelivery
    /\ wire = NoWire
    /\ nonce_log = <<>>
    /\ sent = <<>>
    /\ accepted = <<>>

NextPure ==
    \/ \E zz \in ZZs, psk \in Psks, psk_id \in PskIds :
          KeySchedule("s", zz, <<1>>, psk, psk_id)
    \/ \E i \in Inst : GetCiphersuite(i)
    \/ \E i \in Inst, info \in Infos, psk_id \in PskIds :
          GetKeyScheduleContext(i, info, psk_id)

SpecPure == InitPure /\ [][NextPure]_vars

\* ----------------------------------- compute_nonce over the counter's values
\* compute_nonce(self.ctx.sequence_number) on a derived context, once for each
\* value the counter takes: nonce_log[k] is its outcome after k - 1 increments.
LoggedComputeNonce(i) ==
    /\ established[i]
    /\ Len(nonce_log) = ok_calls[i]
    /\ Len(nonce_log) <= SeqModulus
    /\ ComputeNonceCall(i, hpke[i].ctx.sequence_number)
    /\ nonce_log' = Append(nonce_log, [ok |-> last'.result = "ok", val |-> last'.out.val])

\* self.ctx.sequence_number += 1, by increment_seq or as the unit test skips a
\* sequence number.
IncrementSeqCall(i) ==
    /\ ok_calls[i] <= SeqModulus
    /\ \E oc \in OverflowChecks(hpke[i]) :
          \E r \in {increment_seq(hpke[i].ctx, oc)} :
              /\ hpke' = [hpke EXCEPT ![i].ctx = r.ctx]
              /\ ok_calls' = [ok_calls EXCEPT ![i] = IF r.ok THEN @ + 1 ELSE @]
              /\ last' = Call(i, "increment_seq", IF r.ok THEN "ok" ELSE PanicAddOverflow,
                              NoOut, hpke[i].ctx, <<>>, NoAead, NoArgs)
    /\ UNCHANGED <<established, seal_log, chan, delivery, wire, sent, accepted>>

\* The counter moves on once the nonce of its current value has been computed.
LoggedIncrementSeq(i) ==
    /\ Len(nonce_log) = ok_calls[i] + 1
    /\ IncrementSeqCall(i)
    /\ UNCHANGED nonce_log

NextNonce ==
    \/ \E zz \in ZZs, info \in Infos, psk \in Psks, psk_id \in PskIds :
          KeySchedule("s", zz, info, psk, psk_id)
    \/ LoggedComputeNonce("s")
    \/ LoggedIncrementSeq("s")

SpecNonce == Init /\ [][NextNonce]_vars

\* --------------------------------------- nonces of every width, with skips
\* An instance whose AEAD has a nonce of w bytes (nn: aead.get_nn()).
InitWidths ==
    /\ \E m \in Mode, w \in 1..Nn :
          hpke = [i \in Inst |-> [New(m, KemId, KdfId, AeadId) EXCEPT !.nn = w]]
    /\ established = [i \in Inst |-> FALSE]
    /\ ok_calls = [i \in Inst |-> 0]
    /\ last = Call("s", "new", "ok", NoOut, DefaultContext, <<>>, NoAead, NoArgs)
    /\ seal_log = <<>>
    /\ chan = <<>>
    /\ delivery = NoDelivery
    /\ wire = NoWire
    /\ nonce_log = <<>>
    /\ sent = <<>>
    /\ accepted = <<>>

\* The unit test's `hpke.ctx.sequence_number += 1`: one sequence number is skipped.
Skip(i) ==
    /\ ok_calls[i] < MaxSealed
    /\ IncrementSeqCall(i)
    /\ UNCHANGED nonce_log

NextSkip ==
    \E i \in {"s"} :
        \/ \E zz \in ZZs, info \in Infos, psk \in Psks, psk_id \in PskIds :
              KeySchedule(i, zz, info, psk, psk_id)
        \/ \E aad \in Aads, pt \in Pts : FewSeal(i, aad, pt)
        \/ \E aad \in Aads, ct \in Ciphertexts(hpke[i]) : FewOpen(i, aad, ct)
        \/ Skip(i)

SpecSkip == InitWidths /\ [][NextSkip]_vars

\* ------------------------------------------------- a sender and a receiver
\* Both instances run key_schedule on the same inputs.
PairKeyScheduleCall(zz, info, psk, psk_id) ==
    \E rs \in {key_schedule(hpke["s"], zz, info, psk, psk_id)},
       rr \in {key_schedule(hpke["r"], zz, info, psk, psk_id)} :
        /\ hpke' = [hpke EXCEPT !["s"].ctx = rs.ctx, !["r"].ctx = rr.ctx]
        /\ established' = [i \in Inst |->
                              established[i] \/ (IF i = "s" THEN rs ELSE rr).result = "ok"]
        /\ ok_calls' = [i \in Inst |->
                           IF (IF i = "s" THEN rs ELSE rr).result = "ok" THEN 0
                           ELSE ok_calls[i]]
        /\ last' = Call("r", "key_schedule", rr.result, NoOut, hpke["r"].ctx, rr.calls,
                        NoAead, [NoArgs EXCEPT !.zz = zz, !.info = info, !.psk = psk,
                                               !.psk_id = psk_id])
        /\ chan' = IF rs.result = "ok" THEN <<>> ELSE chan
        /\ delivery' = NoDelivery
        /\ UNCHANGED <<seal_log, wire, nonce_log>>

PairKeySchedule(zz, info, psk, psk_id) ==
    /\ PairKeyScheduleCall(zz, info, psk, psk_id)
    /\ UNCHANGED <<sent, accepted>>

\* The sender seals the next (aad, plaintext) pair and sends the ciphertext.
PairSeal(aad, plain_txt) ==
    /\ established["s"]
    /\ Len(chan) < MaxInFlight
    /\ SealCall("s", aad, plain_txt)
    /\ chan' = IF last'.result = "ok"
               THEN Append(chan, [aad |-> aad, pt |-> plain_txt, ct |-> last'.out.val])
               ELSE chan
    /\ delivery' = NoDelivery
    /\ UNCHANGED <<seal_log, wire, nonce_log, sent, accepted>>

\* The receiver opens the oldest ciphertext in flight with the aad it was sealed with.
PairOpen ==
    /\ chan # <<>>
    /\ OpenCall("r", Head(chan).aad, Head(chan).ct)
    /\ chan' = IF last'.result = "ok" THEN Tail(chan) ELSE chan
    /\ delivery' = [NoDelivery EXCEPT !.opened = TRUE, !.sent = Head(chan).pt]
    /\ UNCHANGED <<seal_log, wire, nonce_log, sent, accepted>>

\* The message with one bit of its aad or of its ciphertext (tag included)
\* inverted, in every way.
Tamperings(m) ==
    {[aad |-> FlipBit(m.aad, k, b), ct |-> m.ct] : k \in DOMAIN m.aad, b \in BitsOfByte}
    \cup {[aad |-> m.aad, ct |-> FlipCiphertextBit(m.ct, k)] : k \in CiphertextBits(m.ct)}

\* The receiver opens the oldest ciphertext in flight after one bit of it or of
\* its aad was inverted on the way.
PairTamperedOpen ==
    /\ chan # <<>>
    /\ \E t \in Tamperings(Head(chan)) : OpenCall("r", t.aad, t.ct)
    /\ chan' = IF last'.result = "ok" THEN Tail(chan) ELSE chan
    /\ delivery' = [NoDelivery EXCEPT !.sent = Head(chan).pt, !.tampered = TRUE]
    /\ UNCHANGED <<seal_log, wire, nonce_log, sent, accepted>>

NextPair ==
    \/ \E zz \in ZZs, info \in Infos, psk \in Psks, psk_id \in PskIds :
          PairKeySchedule(zz, info, psk, psk_id)
    \/ \E pair \in Pairs : PairSeal(pair[1], pair[2])
    \/ PairOpen

SpecPair == Init /\ [][NextPair]_vars

\* --------------------------------------------- the two Base-mode setups
\* A secret key that is not the recipient's.
OtherSk == 4

\* The sender sets up for the recipient's public key and sends enc.
WireSetupSender(info, e) ==
    /\ SetupBaseSenderCall("s", KemPk(RecipientSk), info, e)
    /\ wire' = IF last'.result = "ok"
               THEN [sent |-> TRUE, enc |-> last'.out.val, pk_r |-> KemPk(RecipientSk),
                     info |-> info]
               ELSE wire

\* The receiver sets up from the enc it was sent.
WireSetupReceiver(sk_r, info) ==
    /\ wire.sent \/ hpke["r"].mode # "Base"
    /\ SetupBaseReceiver("r", wire.enc, sk_r, info)

NextSetup ==
    \/ \E info \in Infos, e \in Ephemerals : WireSetupSender(info, e)
    \/ \E sk_r \in {RecipientSk, OtherSk}, info \in Infos : WireSetupReceiver(sk_r, info)
    \/ \E aad \in Aads, pt \in Pts : FewSeal("s", aad, pt)

SpecSetup == Init /\ [][NextSetup]_vars

\* ----------------------------------------- messages changed on their way
\* The sender seals a few messages after a setup.
FewSeals(aad, plain_txt) ==
    /\ ok_calls["s"] < MaxSealed
    /\ PairSeal(aad, plain_txt)

NextTamper ==
    \/ \E zz \in ZZs, info \in Infos, psk \in Psks, psk_id \in PskIds :
          PairKeySchedule(zz, info, psk, psk_id)
    \/ \E pair \in Pairs : FewSeals(pair[1], pair[2])
    \/ PairOpen
    \/ PairTamperedOpen

SpecTamper == Init /\ [][NextTamper]_vars

\* ------------------------------------ messages delivered in any order
\* The k-th message the sender seals.
Message(k) == IF k % 2 = 1 THEN <<<<>>, <<0>>>> ELSE <<<<1>>, <<1, 2>>>>

OrderKeySchedule(psk, psk_id) ==
    /\ PairKeyScheduleCall(<<2, 0>>, <<>>, psk, psk_id)
    /\ sent' = IF established'["s"] /\ ok_calls'["s"] = 0 THEN <<>> ELSE sent
    /\ accepted' = IF established'["r"] /\ ok_calls'["r"] = 0 THEN <<>> ELSE accepted

\* The sender seals its next message; the ciphertext is kept by the network
\* with the sequence number it was sealed at.
OrderSeal ==
    /\ established["s"]
    /\ Len(sent) < Len(accepted) + MaxInFlight
    /\ \E m \in {Message(Len(sent) + 1)} :
          /\ SealCall("s", m[1], m[2])
          /\ sent' = IF last'.result = "ok"
                     THEN Append(sent, [aad |-> m[1], pt |-> m[2], ct |-> last'.out.val,
                                        seq |-> hpke["s"].ctx.sequence_number])
                     ELSE sent
    /\ delivery' = NoDelivery
    /\ UNCHANGED <<seal_log, chan, wire, nonce_log, accepted>>

\* The messages the network hands to the receiver next: the one it expects,
\* the one after it (a message was skipped), the one it accepted last and
\* the first one (replays).
Offers ==
    {Len(accepted) + 1, Len(accepted) + 2, Len(accepted), 1} \cap DOMAIN sent

\* The receiver opens the k-th ciphertext the sender sealed.
OrderOpen(k) ==
    /\ k \in Offers
    /\ OpenCall("r", sent[k].aad, sent[k].ct)
    /\ accepted' = IF last'.result = "ok"
                   THEN Append(accepted, [k |-> k, pt |-> last'.out.val])
                   ELSE accepted
    /\ delivery' = [NoDelivery EXCEPT !.opened = TRUE, !.sent = sent[k].pt,
                                      !.offered = k]
    /\ UNCHANGED <<seal_log, chan, wire, nonce_log, sent>>

NextOrder ==
    \/ \E psk \in Psks, psk_id \in PskIds : OrderKeySchedule(psk, psk_id)
    \/ OrderSeal
    \/ \E k \in 1..(SeqModulus + MaxInFlight + 1) : OrderOpen(k)

SpecOrder == Init /\ [][NextOrder]_vars

\* ================================================================== claims
Ctx(i) == hpke[i].ctx

IsMessageCall == last.op \in {"seal", "open"}

IsSetupCall == last.op \in {"key_schedule", "setup_base_sender", "setup_base_receiver"}

\* C1: on an established context the sequence number is the number of
\* successful seal and open calls made since the setup: it starts at 0, goes
\* up by one with each of them and is never decreased or reset by them.
C1_SeqCountsSuccessfulCalls ==
    \A i \in Inst : established[i] => Ctx(i).sequence_number = ok_calls[i]

\* C2: a seal or open whose increment would overflow the counter fails with
\* SequenceExhausted, returns nothing and leaves the counter at its largest
\* value instead of wrapping to 0.
C2_ExhaustionFailsInsteadOfWrapping ==
    (/\ IsMessageCall
     /\ last.pre.sequence_number = SeqMax
     /\ last.aead.called /\ last.aead.accepted)
    => /\ last.result = SequenceExhausted
       /\ last.out.kind = "none"
       /\ Ctx(last.inst).sequence_number = SeqMax

\* C3: between two setups no two seal calls on an established instance give
\* the same (key, nonce) pair to the AEAD.
C3_SealNoncesUnique ==
    established["s"] =>
        \A a, b \in DOMAIN seal_log : a # b => seal_log[a] # seal_log[b]

\* The instance of the last call as it was before that call.
Before == [hpke[last.inst] EXCEPT !.ctx = last.pre]

\* The ciphertext a peer holding context `ctx` seals at that context's
\* sequence number: the correct ciphertext for an open at that number.
CorrectCiphertext(h, aad, pt) ==
    AeadSeal(h.ctx.key, compute_nonce(h, h.ctx.sequence_number, TRUE).val, aad, pt)

\* C4: an open that fails authentication signals AuthenticationError, returns
\* no plaintext and leaves key, nonce base, exporter secret and sequence
\* number as they were, so every correct ciphertext that would have opened
\* before the failed call still opens after it, to its plaintext.
C4_FailedOpenChangesNothing ==
    (last.op = "open" /\ last.aead.called /\ ~last.aead.accepted)
    => /\ last.result = AuthenticationError
       /\ last.out.kind = "none"
       /\ Ctx(last.inst) = last.pre
       /\ \A aad \in Aads, pt \in Pts, oc \in BOOLEAN :
             LET ct == CorrectCiphertext(Before, aad, pt)
             IN  open(Before, oc, TRUE, aad, ct).result = "ok"
                 => /\ open(hpke[last.inst], oc, TRUE, aad, ct).result = "ok"
                    /\ open(hpke[last.inst], oc, TRUE, aad, ct).out.val = pt

\* A failed open on an established context that has advanced, after which the
\* correct ciphertext for the same sequence number opens.
C4_Witness ==
    /\ last.op = "open" /\ last.aead.called /\ ~last.aead.accepted
    /\ established[last.inst]
    /\ last.pre.sequence_number > 0
    /\ open(hpke[last.inst], TRUE, TRUE, <<1>>,
            CorrectCiphertext(Before, <<1>>, <<1, 2>>)).result = "ok"

\* C5: with the same derived context on the sender and the receiver, every
\* pair is sealed, every ciphertext opened in order with its aad returns the
\* plaintext that was sealed, and once all N sealed pairs are opened both
\* sequence numbers equal N.
C5_RoundTrip ==
    (established["s"] /\ established["r"])
    => /\ (last.op = "seal" /\ last.inst = "s") => last.result = "ok"
       /\ delivery.opened =>
             /\ last.result = "ok"
             /\ last.out.kind = "plaintext"
             /\ last.out.val = delivery.sent
       /\ chan = <<>> =>
             /\ Ctx("s").sequence_number = ok_calls["s"]
             /\ Ctx("r").sequence_number = ok_calls["s"]

\* The (mode, psk, psk_id) triples the mode's PSK requirement admits.
PskRequirementMet(mode, psk, psk_id) ==
    \/ mode \in {"Base", "Auth"} /\ psk = <<>> /\ psk_id = <<>>
    \/ mode \in {"Psk", "AuthPsk"} /\ psk # <<>> /\ psk_id # <<>>

\* C6: verify_psk_inputs accepts exactly the triples that meet the mode's PSK
\* requirement, and fails with ConfigurationError on every other one.
C6_VerifyPskInputsAcceptsIff ==
    last.op = "verify_psk_inputs"
    => LET met == PskRequirementMet(hpke[last.inst].mode, last.args.psk, last.args.psk_id)
       IN  /\ last.result = "ok" <=> met
           /\ ~met => last.result \in ConfigurationError

\* verify_psk_inputs has accepted a PSK in a mode that requires one.
C6_Witness ==
    /\ last.op = "verify_psk_inputs"
    /\ hpke[last.inst].mode = "AuthPsk"
    /\ last.args.psk # <<>> /\ last.args.psk_id # <<>>
    /\ last.result = "ok"

\* C7: a key_schedule call whose PSK inputs do not meet the mode's requirement
\* fails with ConfigurationError, has made no KDF call, and leaves key, nonce
\* base, exporter secret and sequence number as they were.
C7_KeyScheduleFailsFast ==
    (/\ last.op = "key_schedule"
     /\ ~PskRequirementMet(hpke[last.inst].mode, last.args.psk, last.args.psk_id))
    => /\ last.result \in ConfigurationError
       /\ last.calls = <<>>
       /\ Ctx(last.inst) = last.pre

\* A rejected key_schedule call on an established context that has advanced.
C7_Witness ==
    /\ last.op = "key_schedule"
    /\ last.result \in ConfigurationError
    /\ established[last.inst]
    /\ last.pre.key # <<>>
    /\ last.pre.sequence_number > 0

\* C8: on an instance whose mode is not Base, setup_base_sender and
\* setup_base_receiver fail with ModeMismatch, call neither the KEM nor the
\* KDF (no key schedule runs), return nothing and leave the context as it was.
C8_BaseSetupRequiresBaseMode ==
    (/\ last.op \in {"setup_base_sender", "setup_base_receiver"}
     /\ hpke[last.inst].mode # "Base")
    => /\ last.result = ModeMismatch
       /\ last.calls = <<>>
       /\ last.out.kind = "none"
       /\ Ctx(last.inst) = last.pre

\* setup_base_sender has been refused on an established Psk instance.
C8_Witness ==
    /\ last.op = "setup_base_sender"
    /\ hpke[last.inst].mode = "Psk"
    /\ established[last.inst]
    /\ last.pre.sequence_number > 0
    /\ last.result = ModeMismatch

\* C9: after a successful setup the sequence number is 0 and key, nonce base
\* and exporter secret are the labeled expansions of the secret and the
\* schedule context of that call's inputs, whatever the context was before.
C9_SetupReplacesContext ==
    (IsSetupCall /\ last.result = "ok")
    => LET h == hpke[last.inst]
           context == get_key_schedule_context(h, last.args.info, last.args.psk_id)
           secret == get_secret(h, last.args.psk, last.args.zz)
       IN  /\ h.ctx.sequence_number = 0
           /\ h.ctx.key = labeled_expand(secret, "key", context, h.nk)
           /\ h.ctx.nonce = labeled_expand(secret, "nonce", context, h.nn)
           /\ h.ctx.exporter_secret = labeled_expand(secret, "exp", context, h.nh)

\* A successful setup on an established context that had advanced and held
\* another key and another nonce base.
C9_Witness ==
    /\ IsSetupCall /\ last.result = "ok"
    /\ last.pre.sequence_number > 0
    /\ last.pre.key # <<>>
    /\ last.pre.key # Ctx(last.inst).key
    /\ last.pre.nonce # Ctx(last.inst).nonce

\* C10: before the first successful setup the sequence number stays 0, and no
\* seal or open returns a ciphertext or a plaintext or gives key material to
\* the AEAD.
C10_NoContextBeforeSetup ==
    \A i \in Inst :
        ~established[i]
        => /\ Ctx(i).sequence_number = 0
           /\ (IsMessageCall /\ last.inst = i)
              => /\ last.out.kind = "none"
                 /\ ~(last.aead.called /\ last.aead.key # <<>>)

\* C11: for a nonce base of nn bytes and every N up to the number of nn-byte
\* values, the nonces compute_nonce gives for the first N sequence numbers are
\* N pairwise-distinct strings of exactly nn bytes.
C11_ComputeNonceInjective ==
    established["s"] =>
        \A k \in DOMAIN nonce_log :
            k <= ByteBase ^ hpke["s"].nn
            => /\ nonce_log[k].ok
               /\ Len(nonce_log[k].val) = hpke["s"].nn
               /\ \A j \in 1..(k - 1) : nonce_log[j].val # nonce_log[k].val

\* C12: an open at the sequence number and under the key a ciphertext was
\* sealed with, given that ciphertext or its aad with one bit inverted, fails
\* with AuthenticationError and returns no plaintext.
C12_TamperingIsDetected ==
    (delivery.tampered /\ established["s"] /\ established["r"])
    => /\ last.op = "open"
       /\ last.aead.called /\ ~last.aead.accepted
       /\ last.result = AuthenticationError
       /\ last.out.kind = "none"

\* The receiver, having opened a message before, was given the next one with a
\* bit inverted, under the sender's key and at the sender's sequence number.
C12_Witness ==
    /\ delivery.tampered
    /\ established["s"] /\ established["r"]
    /\ last.op = "open"
    /\ last.pre.sequence_number > 0
    /\ last.aead.key = Head(chan).ct.key
    /\ last.aead.nonce = Head(chan).ct.nonce
    /\ last.result = AuthenticationError

\* Key, nonce base and exporter secret of a context.
Material(ctx) == <<ctx.key, ctx.nonce, ctx.exporter_secret>>

IsReadOnlyCall ==
    last.op \in {"verify_psk_inputs", "get_ciphersuite", "get_key_schedule_context",
                 "get_secret", "compute_nonce"}

\* C13: seal and open leave key, nonce base and exporter secret as they were;
\* verify_psk_inputs, get_ciphersuite, get_key_schedule_context, get_secret and
\* compute_nonce leave the whole context as it was; only a key schedule (a
\* setup or a re-setup) changes key, nonce base or exporter secret.
C13_OnlySetupChangesKeyMaterial ==
    /\ IsMessageCall => Material(Ctx(last.inst)) = Material(last.pre)
    /\ IsReadOnlyCall => Ctx(last.inst) = last.pre
    /\ Material(Ctx(last.inst)) # Material(last.pre)
       => IsSetupCall /\ last.result = "ok"

\* A successful seal on a derived context that has advanced.
C13_Witness ==
    /\ last.op = "seal" /\ last.result = "ok"
    /\ established[last.inst]
    /\ last.pre.sequence_number > 0
    /\ Ctx(last.inst).sequence_number = last.pre.sequence_number + 1
    /\ Ctx(last.inst).nonce # <<>>

\* The number a big-endian pair of bytes encodes.
FromBe16(hi, lo) == (hi * ByteBase) + lo

SuiteIds(h) == <<h.kem_id, h.kdf_id, h.aead_id>>

\* C14: get_ciphersuite returns exactly 6 bytes, which are the KEM id, the
\* KDF id and the AEAD id as big-endian 16-bit numbers in this order, and an
\* instance whose ids differ in any component gets another tag.
C14_CiphersuiteTagInjective ==
    last.op = "get_ciphersuite"
    => LET h == hpke[last.inst]
           tag == last.out.val
       IN  /\ Len(tag) = 6
           /\ \A k \in 1..6 : tag[k] \in 0..(ByteBase - 1)
           /\ FromBe16(tag[1], tag[2]) = h.kem_id
           /\ FromBe16(tag[3], tag[4]) = h.kdf_id
           /\ FromBe16(tag[5], tag[6]) = h.aead_id
           /\ \A j \in Inst :
                 SuiteIds(hpke[j]) # SuiteIds(h) => get_ciphersuite(hpke[j]) # tag

\* The tag of an instance whose ids differ from the other instance's only in
\* the high byte of the KDF id.
C14_Witness ==
    /\ last.op = "get_ciphersuite" /\ last.inst = "s"
    /\ hpke["s"].kem_id = hpke["r"].kem_id
    /\ hpke["s"].aead_id = hpke["r"].aead_id
    /\ hpke["s"].kdf_id = ByteBase + 1 /\ hpke["r"].kdf_id = 1
    /\ last.out.val # get_ciphersuite(hpke["r"])

\* The sequence number as a big-endian field of nn bytes, zeros on the left.
PaddedSeq(seq, nn) == [k \in 1..nn |-> (seq \div (ByteBase ^ (nn - k))) % ByteBase]

\* C15: every seal and open on a derived context gives the AEAD the nonce of
\* the sequence number held before the call, which is the nonce base XOR that
\* number as a big-endian field of nn bytes, for every width nn >= 1 and every
\* sequence number that fits it, skipped ones included; at sequence number 0
\* it is the nonce base.
C15_NonceIsBaseXorSequence ==
    (/\ IsMessageCall
     /\ established[last.inst]
     /\ last.pre.sequence_number < ByteBase ^ hpke[last.inst].nn)
    => LET nn == hpke[last.inst].nn
           field == PaddedSeq(last.pre.sequence_number, nn)
       IN  /\ last.aead.called
           /\ last.aead.nonce = [k \in 1..nn |-> BitXor(last.pre.nonce[k], field[k])]
           /\ last.pre.sequence_number = 0 => last.aead.nonce = last.pre.nonce

\* C16: in every established state the key is nk bytes long, the nonce base
\* nn bytes and the exporter secret nh bytes: after the first setup and after
\* every later setup, seal and open.
C16_DerivedMaterialHasConfiguredSizes ==
    \A i \in Inst :
        established[i]
        => /\ Len(Ctx(i).key) = hpke[i].nk
           /\ Len(Ctx(i).nonce) = hpke[i].nn
           /\ Len(Ctx(i).exporter_secret) = hpke[i].nh

\* A successful open on an established context that has advanced.
C16_Witness ==
    /\ last.op = "open" /\ last.result = "ok"
    /\ established[last.inst]
    /\ last.pre.sequence_number > 0
    /\ Len(Ctx(last.inst).key) = Nk
    /\ Len(Ctx(last.inst).nonce) = Nn
    /\ Len(Ctx(last.inst).exporter_secret) = Nh

\* C17: get_key_schedule_context returns the ciphersuite tag, then the mode
\* byte (at offset 6), then the hash of psk_id, then the hash of info; the
\* result depends on no context state and the call changes none; an instance
\* of the same ciphersuite and another mode gets another string for the same
\* info and psk_id.
C17_KeyScheduleContextLayout ==
    last.op = "get_key_schedule_context"
    => LET h == hpke[last.inst]
           info == last.args.info
           psk_id == last.args.psk_id
           context == last.out.val
       IN  /\ context = get_ciphersuite(h) \o <<ModeByte(h.mode)>>
                        \o labeled_extract(<<0>>, "pskID_hash", psk_id)
                        \o labeled_extract(<<0>>, "info_hash", info)
           /\ SubSeq(context, 1, 6) = get_ciphersuite(h)
           /\ context[6 + 1] = ModeByte(h.mode)
           /\ Len(context) = 6 + 1 + Nh + Nh
           /\ context = get_key_schedule_context([h EXCEPT !.ctx = DefaultContext],
                                                 info, psk_id)
           /\ Ctx(last.inst) = last.pre
           /\ \A j \in Inst :
                 (SuiteIds(hpke[j]) = SuiteIds(h) /\ hpke[j].mode # h.mode)
                 => get_key_schedule_context(hpke[j], info, psk_id) # context

\* The context string of an instance that holds a derived context, while the
\* other instance has the same ciphersuite and another mode.
C17_Witness ==
    /\ last.op = "get_key_schedule_context" /\ last.inst = "s"
    /\ established["s"] /\ Ctx("s").key # <<>>
    /\ SuiteIds(hpke["r"]) = SuiteIds(hpke["s"])
    /\ hpke["s"].mode = "Psk" /\ hpke["r"].mode = "AuthPsk"
    /\ last.args.info # <<>> /\ last.args.psk_id # <<>>
    /\ get_key_schedule_context(hpke["r"], last.args.info, last.args.psk_id)
          # last.out.val

\* C18: get_secret extracts the secret from zz with the salt
\* labeled_extract(nh zero bytes, "psk_hash", ikm), where ikm is the psk itself
\* when there is one and nh zero bytes when the psk is empty: an empty psk
\* gives the secret that a psk of nh zero bytes gives, for every zz.
C18_EmptyPskIsZeroBytes ==
    last.op = "get_secret"
    => LET h == hpke[last.inst]
           psk == last.args.psk
           zz == last.args.zz
           ikm == IF psk = <<>> THEN Zeros(h.nh) ELSE psk
       IN  /\ last.out.val =
                 labeled_extract(labeled_extract(Zeros(h.nh), "psk_hash", ikm), "secret", zz)
           /\ psk = <<>> => last.out.val = get_secret(h, Zeros(h.nh), zz)

\* The secret of an empty psk and a non-empty zz, which another psk does not give.
C18_Witness ==
    /\ last.op = "get_secret"
    /\ last.args.psk = <<>> /\ last.args.zz = <<2, 0>>
    /\ last.out.val = get_secret(hpke[last.inst], Zeros(Nh), <<2, 0>>)
    /\ last.out.val # get_secret(hpke[last.inst], <<2, 1>>, <<2, 0>>)

\* C19: when setup_base_sender on one Base instance has returned enc, and
\* setup_base_receiver on another Base instance of the same ciphersuite is then
\* given that enc, the secret key of the sender's pk_r and the sender's info,
\* both instances hold the same key, nonce base and exporter secret, and each
\* is at sequence number 0 until it seals or opens.
C19_SenderAndReceiverAgree ==
    (/\ last.op = "setup_base_receiver" /\ last.inst = "r" /\ last.result = "ok"
     /\ wire.sent
     /\ KemPk(last.args.sk_r) = wire.pk_r
     /\ last.args.info = wire.info)
    => /\ Material(Ctx("r")) = Material(Ctx("s"))
       /\ Ctx("r").sequence_number = 0
       /\ ok_calls["s"] = 0 => Ctx("s").sequence_number = 0

\* Both setups have run with a non-empty info and no message sealed since.
C19_Witness ==
    /\ last.op = "setup_base_receiver" /\ last.inst = "r" /\ last.result = "ok"
    /\ wire.sent /\ wire.info = <<1>> /\ last.args.info = <<1>>
    /\ last.args.sk_r = RecipientSk
    /\ ok_calls["s"] = 0
    /\ Ctx("s").key # <<>>
    /\ Ctx("r") = Ctx("s")

\* C20: between a sender and a receiver that share one derived context, the
\* ciphertext sealed at sender sequence number i is accepted by open only
\* while the receiver's sequence number is i; offered earlier or again after
\* it was accepted, open fails and leaves the receiver's counter alone, so
\* the plaintexts the receiver accepted are the first ones the sender sealed,
\* in order.
C20_InOrderDeliveryOnly ==
    /\ \A j \in DOMAIN accepted :
          /\ j \in DOMAIN sent
          /\ accepted[j].k = j
          /\ accepted[j].pt = sent[j].pt
    /\ (last.op = "open" /\ delivery.offered # 0) =>
          /\ last.result = "ok" =>
                /\ sent[delivery.offered].seq = last.pre.sequence_number
                /\ delivery.offered = Len(accepted)
          /\ last.result # "ok" => Ctx("r") = last.pre

====
